---------------------------- MODULE Spec2Model ----------------------------
(***************************************************************************)
(* typed-lmdb (src/src/lib.rs): typed tables and cursors over an LMDB      *)
(* environment.                                                            *)
(*                                                                         *)
(* The typed layer forwards every call to the store (lmdb-rs / LMDB).  The *)
(* store's side of each call is modelled at the call site that makes it,   *)
(* following the LMDB API contract: a DUPSORT database keeps, per key, the *)
(* duplicate values in the order of the installed duplicate comparator     *)
(* (mdb_set_dupsort), a put of an existing (key, data) pair is a no-op, a  *)
(* put with MDB_NOOVERWRITE on an existing key is MDB_KEYEXISTS, writes in *)
(* a read-only transaction are EACCES, MDB_GET_BOTH is an exact match,     *)
(* MDB_GET_BOTH_RANGE a lower bound inside one key, MDB_NEXT_DUP stays     *)
(* inside the current key.                                                 *)
(*                                                                         *)
(* Values are held in the store as raw bytes; keys (Id64, compared by the  *)
(* store as native integers under MDB_INTEGERKEY) index the contents       *)
(* directly.  One transaction is open at a time and transactions end by    *)
(* commit (writers) or by being dropped (readers); abort is not modelled.  *)
(* The state machine is explored for a little-endian build; the codec      *)
(* check (SpecCodec) covers both byte orders.                              *)
(***************************************************************************)
EXTENDS Integers, Sequences, FiniteSets, TLC

VARIABLES
    endian,     \* byte order of the build target: "little" or "big"
    cls,        \* the TableClass of the table (TableDef::C)
    contents,   \* the sub-database: key -> sequence of stored values (raw bytes)
    dcmp,       \* duplicate comparator of the database handle: "default" | "reverse"
    txn,        \* "none" | "write" (Transaction) | "read" (ReadonlyTransaction)
    prepared,   \* prepare_database succeeded in the open transaction
    table,      \* a Table bound to the open transaction is alive
    cursor,     \* the TypedCursor created from the Table, or none
    last,       \* the last call and its result
    hist,       \* key -> the values written under it and not deleted since
    a, b, ty,   \* codec check: two values of the composite type ty
    cmpRes      \* codec check: <<byte-wise result, field-major result>>

vars == <<endian, cls, contents, dcmp, txn, prepared, table, cursor, last,
          hist, a, b, ty, cmpRes>>

storeVars == <<cls, contents, dcmp, txn, prepared, table, cursor, last, hist>>
codecVars == <<a, b, ty, cmpRes>>

---------------------------------------------------------------------------
(* Bounds and input sets *)

\* keys are 1..MaxKey
MaxKey == 2

Keys == 1..MaxKey

\* Id64 values written by the callers (test_simple_table uses 200,100,3,2,1)
Vals == {1, 2, 3, 100, 200}

\* Id64 values used to probe (to_item, to_gte_item, has_item); 4 is never stored
ProbeVals == Vals \cup {4}

\* (key, value) pairs the callers write: every value under key 1, the value 3
\* under the other keys
WritePairs == {<<k, v>> \in Keys \X Vals : k = 1 \/ v = 3}

\* (key, value) pairs the callers probe: test_simple_table probes (2, 3), (1, 4)
ProbePairs == {<<k, v>> \in Keys \X ProbeVals : k = 1 \/ v \in {3, 4}}

\* b"Test" and two other blobs
Blobs == {<<84, 101, 115, 116>>, <<116, 115, 101, 84>>, <<84>>}

\* the classes of the two tables test_simple_table defines
TableClasses == {"Unique__Id64_Id64Rev", "UniqueKey__Id64_Blob"}

---------------------------------------------------------------------------
(* Raw codec *)

RECURSIVE LEBytes(_, _)
\* the n low bytes of x, least significant first
LEBytes(x, n) == IF n = 0 THEN <<>> ELSE <<x % 256>> \o LEBytes(x \div 256, n - 1)

Rev(s) == [i \in 1..Len(s) |-> s[Len(s) + 1 - i]]

\* the memory image of an n-byte unsigned integer on the build target
NativeBytes(x, n) == IF endian = "little" THEN LEBytes(x, n) ELSE Rev(LEBytes(x, n))

RECURSIVE LEValue(_)
LEValue(s) == IF s = <<>> THEN 0 ELSE s[1] + 256 * LEValue(Tail(s))

\* the unsigned integer whose memory image is s
NativeValue(s) == IF endian = "little" THEN LEValue(s) ELSE LEValue(Rev(s))

\* size_of::<Id64>()
SizeId64 == 8

\* size_of::<Idx16>()
SizeIdx16 == 2

\* ToMdbValue for Id64: the 8 bytes of the integer in memory
Id64ToMdb(x) == NativeBytes(x, SizeId64)

\* FromMdbValue for Id64
Id64FromMdb(s) == NativeValue(s)

\* ToMdbValue for Id64x2: #[repr(C, packed)], the two fields back to back
Id64x2ToMdb(p) == NativeBytes(p[1], SizeId64) \o NativeBytes(p[2], SizeId64)

\* ToMdbValue for Idx16Id64: #[repr(C, packed)], u16 then u64, no padding
Idx16Id64ToMdb(p) == NativeBytes(p[1], SizeIdx16) \o NativeBytes(p[2], SizeId64)

\* mem::size_of of the composite types
SizeOfComposite(t) == IF t = "Id64x2" THEN SizeId64 + SizeId64 ELSE SizeIdx16 + SizeId64

CompositeToMdb(t, p) == IF t = "Id64x2" THEN Id64x2ToMdb(p) ELSE Idx16Id64ToMdb(p)

\* three-way comparison of integers: Ordering::{Less, Equal, Greater} as i8
CmpInt(x, y) == IF x < y THEN -1 ELSE IF x > y THEN 1 ELSE 0

\* derived Ord of a tuple struct: field-major, in declaration order
DerivedOrd(p, q) == IF p[1] # q[1] THEN CmpInt(p[1], q[1]) ELSE CmpInt(p[2], q[2])

RECURSIVE MemCmp(_, _)
\* the store's default comparison: byte-wise lexicographic, shorter first
MemCmp(s, t) ==
    IF s = <<>> THEN (IF t = <<>> THEN 0 ELSE -1)
    ELSE IF t = <<>> THEN 1
    ELSE IF s[1] # t[1] THEN CmpInt(s[1], t[1])
    ELSE MemCmp(Tail(s), Tail(t))

---------------------------------------------------------------------------
(* Comparator adapters and table classes *)

\* sort::<T>: decode both, lhs.cmp(&rhs)
sort(l, r) == CmpInt(Id64FromMdb(l), Id64FromMdb(r))

\* a comparator that forgets the reversal
sort_reverse_unreversed(l, r) == CmpInt(Id64FromMdb(l), Id64FromMdb(r))

\* sort_reverse::<T>: decode both, lhs.cmp(&rhs).reverse()
sort_reverse(l, r) == 0 - CmpInt(Id64FromMdb(l), Id64FromMdb(r))

\* dbflags(): DbAllowDups is set for the two Id64/Id64 classes
AllowDups(c) == c # "UniqueKey__Id64_Blob"

\* a preparation that flips the comparator on every call
prepare_database_toggle(c, cur) ==
    IF c = "Unique__Id64_Id64Rev"
    THEN (IF cur = "reverse" THEN "default" ELSE "reverse")
    ELSE cur

\* the comparator prepare_database leaves installed: set_dupsort(sort_reverse)
\* for Unique__Id64_Id64Rev, nothing (the handle keeps what it has) otherwise
prepare_database(c, cur) == IF c = "Unique__Id64_Id64Rev" THEN "reverse" ELSE cur

\* prepare_database can fail only where it calls the store
PrepareCanFail(c) == c = "Unique__Id64_Id64Rev"

\* the duplicate comparison the store applies: the installed callback, or its
\* default (native integer order under MDB_INTEGERDUP)
DupCmp(d, l, r) == IF d = "reverse" THEN sort_reverse(l, r) ELSE CmpInt(Id64FromMdb(l), Id64FromMdb(r))

\* typed values of a class and their codec
ValuesOf(c) == IF AllowDups(c) THEN Vals ELSE Blobs

ToMdb(c, v) == IF AllowDups(c) THEN Id64ToMdb(v) ELSE v

FromMdb(c, s) == IF AllowDups(c) THEN Id64FromMdb(s) ELSE s

WritesOf(c) == IF AllowDups(c) THEN WritePairs ELSE Keys \X Blobs

ProbePairsOf(c) == IF AllowDups(c) THEN ProbePairs ELSE Keys \X Blobs

---------------------------------------------------------------------------
(* The store's side of the calls (lmdb::Database, lmdb::Cursor) *)

NoVal(c) == IF AllowDups(c) THEN 0 ELSE <<>>

EmptyContents == [k \in Keys |-> <<>>]

\* first position of seq whose element does not sort before x; Len+1 if none
LowerBound(d, seq, x) ==
    LET hits == {i \in 1..Len(seq) : DupCmp(d, seq[i], x) >= 0}
    IN  IF hits = {} THEN Len(seq) + 1
        ELSE CHOOSE i \in hits : \A j \in hits : i <= j

InsertAt(seq, i, x) == SubSeq(seq, 1, i - 1) \o <<x>> \o SubSeq(seq, i, Len(seq))

RemoveAt(seq, i) == SubSeq(seq, 1, i - 1) \o SubSeq(seq, i + 1, Len(seq))

\* first position of seq holding exactly the bytes x; 0 if none
IndexOf(seq, x) ==
    LET hits == {i \in 1..Len(seq) : seq[i] = x}
    IN  IF hits = {} THEN 0 ELSE CHOOSE i \in hits : \A j \in hits : i <= j

\* mdb_put on one key: a DUPSORT database adds x at its sorted place unless a
\* value comparing equal is there (then that value is overwritten); any other
\* database replaces the value
PutValue(c, d, seq, x) ==
    IF ~AllowDups(c) THEN <<x>>
    ELSE LET i == LowerBound(d, seq, x)
         IN  IF i <= Len(seq) /\ DupCmp(d, seq[i], x) = 0
             THEN [seq EXCEPT ![i] = x]
             ELSE InsertAt(seq, i, x)

Res(code, out, cont) == [code |-> code, out |-> out, cont |-> cont]

\* Database::set: mdb_put, flags 0
DbSet(mode, c, d, cont, k, x) ==
    IF mode = "read" THEN Res("Access", <<>>, cont)
    ELSE Res("Ok", <<>>, [cont EXCEPT ![k] = PutValue(c, d, @, x)])

\* Database::insert: mdb_put, MDB_NOOVERWRITE
DbInsert(mode, c, d, cont, k, x) ==
    IF mode = "read" THEN Res("Access", <<>>, cont)
    ELSE IF cont[k] # <<>> THEN Res("KeyExists", <<>>, cont)
    ELSE Res("Ok", <<>>, [cont EXCEPT ![k] = PutValue(c, d, @, x)])

\* Database::get: mdb_get, the first value of the key
DbGet(c, cont, k) ==
    IF cont[k] = <<>> THEN Res("NotFound", <<>>, cont)
    ELSE Res("Ok", <<FromMdb(c, cont[k][1])>>, cont)

\* Database::del: mdb_del without data, every value of the key
DbDel(mode, cont, k) ==
    IF mode = "read" THEN Res("Access", <<>>, cont)
    ELSE IF cont[k] = <<>> THEN Res("NotFound", <<>>, cont)
    ELSE Res("Ok", <<>>, [cont EXCEPT ![k] = <<>>])

\* Database::del_item: mdb_del with data; the data is ignored unless DUPSORT
DbDelItem(mode, c, d, cont, k, x) ==
    IF mode = "read" THEN Res("Access", <<>>, cont)
    ELSE IF cont[k] = <<>> THEN Res("NotFound", <<>>, cont)
    ELSE IF ~AllowDups(c) THEN Res("Ok", <<>>, [cont EXCEPT ![k] = <<>>])
    ELSE LET i == LowerBound(d, cont[k], x)
         IN  IF i <= Len(cont[k]) /\ DupCmp(d, cont[k][i], x) = 0
             THEN Res("Ok", <<>>, [cont EXCEPT ![k] = RemoveAt(@, i)])
             ELSE Res("NotFound", <<>>, cont)

NoCursor == [st |-> "none", k |-> 0, d |-> <<>>]

Unpositioned == [st |-> "unpos", k |-> 0, d |-> <<>>]

At(k, x) == [st |-> "at", k |-> k, d |-> x]

\* every entry a cursor can stand on
Positions(cont) == UNION {{At(k, cont[k][i]) : i \in 1..Len(cont[k])} : k \in Keys}

\* where the store may leave a cursor whose entry was deleted: uninitialised,
\* or on some remaining entry
Lost(cont) == {Unpositioned} \cup Positions(cont)

\* a positioning that fails leaves the cursor uninitialised
Failed(cont) == {Unpositioned}

CRes(code, out, curs, cont) == [code |-> code, out |-> out, curs |-> curs, cont |-> cont]

\* Cursor::to_key: MDB_SET_KEY, the first value of exactly this key
CursorToKey(cont, k) ==
    IF cont[k] # <<>> THEN CRes("Ok", <<>>, {At(k, cont[k][1])}, cont)
    ELSE CRes("NotFound", <<>>, Failed(cont), cont)

\* Cursor::to_item: MDB_GET_BOTH, exactly this key and a value comparing equal
CursorToItem(c, d, cont, cur, k, x) ==
    IF ~AllowDups(c) THEN CRes("Incompatible", <<>>, {cur}, cont)
    ELSE IF cont[k] = <<>> THEN CRes("NotFound", <<>>, Failed(cont), cont)
    ELSE LET i == LowerBound(d, cont[k], x)
         IN  IF i <= Len(cont[k]) /\ DupCmp(d, cont[k][i], x) = 0
             THEN CRes("Ok", <<>>, {At(k, cont[k][i])}, cont)
             ELSE CRes("NotFound", <<>>, Failed(cont), cont)

\* Cursor::to_gte_item: MDB_GET_BOTH_RANGE, exactly this key and the first value
\* that does not sort before x
CursorToGteItem(c, d, cont, cur, k, x) ==
    IF ~AllowDups(c) THEN CRes("Incompatible", <<>>, {cur}, cont)
    ELSE IF cont[k] = <<>> THEN CRes("NotFound", <<>>, Failed(cont), cont)
    ELSE LET i == LowerBound(d, cont[k], x)
         IN  IF i <= Len(cont[k])
             THEN CRes("Ok", <<>>, {At(k, cont[k][i])}, cont)
             ELSE CRes("NotFound", <<>>, Failed(cont), cont)

\* the first entry of the database
FirstEntry(cont) ==
    LET ks == {k \in Keys : cont[k] # <<>>}
    IN  IF ks = {} THEN {} ELSE LET k == CHOOSE x \in ks : \A y \in ks : x <= y
                                IN  {At(k, cont[k][1])}

\* Cursor::to_next_item: MDB_NEXT_DUP.  An uninitialised cursor goes to the
\* first entry; in a DUPSORT database the cursor moves to the next value of its
\* key and stays where it is after the last; otherwise it moves to the next key
CursorToNextItem(c, cont, cur) ==
    IF cur.st # "at"
    THEN IF FirstEntry(cont) = {} THEN CRes("NotFound", <<>>, {cur}, cont)
         ELSE CRes("Ok", <<>>, FirstEntry(cont), cont)
    ELSE IF AllowDups(c)
    THEN LET i == IndexOf(cont[cur.k], cur.d)
         IN  IF i < Len(cont[cur.k])
             THEN CRes("Ok", <<>>, {At(cur.k, cont[cur.k][i + 1])}, cont)
             ELSE CRes("NotFound", <<>>, {cur}, cont)
    ELSE LET ks == {k \in Keys : k > cur.k /\ cont[k] # <<>>}
         IN  IF ks = {} THEN CRes("NotFound", <<>>, {cur}, cont)
             ELSE LET k == CHOOSE x \in ks : \A y \in ks : x <= y
                  IN  CRes("Ok", <<>>, {At(k, cont[k][1])}, cont)

\* Cursor::get: MDB_GET_CURRENT, decoded
CursorGet(c, cont, cur) ==
    IF cur.st = "at" THEN CRes("Ok", <<cur.k, FromMdb(c, cur.d)>>, {cur}, cont)
    ELSE CRes("Invalid", <<>>, {cur}, cont)

\* Cursor::replace: mdb_cursor_put, MDB_CURRENT: the value under the cursor is
\* overwritten in place
CursorReplace(mode, c, cont, cur, x) ==
    IF cur.st # "at" THEN CRes("Invalid", <<>>, {cur}, cont)
    ELSE IF mode = "read" THEN CRes("Access", <<>>, {cur}, cont)
    ELSE LET i == IndexOf(cont[cur.k], cur.d)
         IN  CRes("Ok", <<>>, {At(cur.k, x)}, [cont EXCEPT ![cur.k][i] = x])

\* Cursor::add_item: mdb_cursor_put, flags 0, under the cursor's key
CursorAddItem(mode, c, d, cont, cur, x) ==
    IF cur.st # "at" THEN CRes("Invalid", <<>>, {cur}, cont)
    ELSE IF mode = "read" THEN CRes("Access", <<>>, {cur}, cont)
    ELSE CRes("Ok", <<>>, {At(cur.k, x)}, [cont EXCEPT ![cur.k] = PutValue(c, d, @, x)])

\* Cursor::del and Cursor::del_all: mdb_cursor_del, MDB_NODUPDATA: every value
\* of the cursor's key
CursorDelAll(mode, cont, cur) ==
    IF mode = "read" THEN CRes("Access", <<>>, {cur}, cont)
    ELSE IF cur.st # "at" THEN CRes("Invalid", <<>>, {cur}, cont)
    ELSE LET nc == [cont EXCEPT ![cur.k] = <<>>]
         IN  CRes("Ok", <<>>, Lost(nc), nc)

\* Cursor::del_item: mdb_cursor_del, flags 0: the value under the cursor
CursorDelItem(mode, cont, cur) ==
    IF mode = "read" THEN CRes("Access", <<>>, {cur}, cont)
    ELSE IF cur.st # "at" THEN CRes("Invalid", <<>>, {cur}, cont)
    ELSE LET nc == [cont EXCEPT ![cur.k] = RemoveAt(@, IndexOf(@, cur.d))]
         IN  CRes("Ok", <<>>, Lost(nc), nc)

\* a cursor of the transaction after a write made through the Table: it stays
\* on its entry; if the entry is gone it follows its key's value or is lost
CursorAfterWrite(c, nc, cur) ==
    IF cur.st # "at" \/ IndexOf(nc[cur.k], cur.d) # 0 THEN {cur}
    ELSE IF ~AllowDups(c) /\ nc[cur.k] # <<>> THEN {At(cur.k, nc[cur.k][1])}
    ELSE Lost(nc)

---------------------------------------------------------------------------
(* The typed layer: TableHandle, Table, TypedCursor *)

\* TableHandle::bind_transaction: txn.bind, try!(prepare_database), Ok(Table).
\* fault: the store refuses set_dupsort
bind_transaction(c, d, fault) ==
    IF fault /\ PrepareCanFail(c)
    THEN [code |-> "Other", table |-> FALSE, dcmp |-> d, prepared |-> FALSE]
    ELSE [code |-> "Ok", table |-> TRUE, dcmp |-> prepare_database(c, d), prepared |-> TRUE]

\* a bind that drops the result of prepare_database
bind_reader_unchecked(c, d, fault) ==
    IF fault /\ PrepareCanFail(c)
    THEN [code |-> "Ok", table |-> TRUE, dcmp |-> d, prepared |-> FALSE]
    ELSE [code |-> "Ok", table |-> TRUE, dcmp |-> prepare_database(c, d), prepared |-> TRUE]

\* TableHandle::bind_reader: the same over a ReadonlyTransaction
bind_reader(c, d, fault) ==
    IF fault /\ PrepareCanFail(c)
    THEN [code |-> "Other", table |-> FALSE, dcmp |-> d, prepared |-> FALSE]
    ELSE [code |-> "Ok", table |-> TRUE, dcmp |-> prepare_database(c, d), prepared |-> TRUE]

\* a Table that does not borrow its transaction
TxnBorrowed_never(t) == FALSE

\* Table<'txn, D>: the Table borrows the transaction for as long as it lives
TxnBorrowed(t) == t

\* TypedCursor<'table, D>: the cursor borrows the Table for as long as it lives
TableBorrowed(cur) == cur.st # "none"

\* a set that calls Database::insert
Table_set_no_overwrite(mode, c, d, cont, k, v) == DbInsert(mode, c, d, cont, k, ToMdb(c, v))

\* Table::set
Table_set(mode, c, d, cont, k, v) == DbSet(mode, c, d, cont, k, ToMdb(c, v))

\* Table::insert
Table_insert(mode, c, d, cont, k, v) == DbInsert(mode, c, d, cont, k, ToMdb(c, v))

\* Table::get
Table_get(c, cont, k) == DbGet(c, cont, k)

\* a del that reaches the store through a writable handle whatever the binding
Table_del_writable(mode, cont, k) == DbDel("write", cont, k)

\* Table::del
Table_del(mode, cont, k) == DbDel(mode, cont, k)

\* Table::del_item
Table_del_item(mode, c, d, cont, k, v) == DbDelItem(mode, c, d, cont, k, ToMdb(c, v))

\* TypedCursor::to_key
TypedCursor_to_key(cont, k) == CursorToKey(cont, k)

\* TypedCursor::to_item
TypedCursor_to_item(c, d, cont, cur, k, v) == CursorToItem(c, d, cont, cur, k, ToMdb(c, v))

\* a to_gte_item that calls Cursor::to_item
TypedCursor_to_gte_item_exact(c, d, cont, cur, k, v) == CursorToItem(c, d, cont, cur, k, ToMdb(c, v))

\* TypedCursor::to_gte_item
TypedCursor_to_gte_item(c, d, cont, cur, k, v) == CursorToGteItem(c, d, cont, cur, k, ToMdb(c, v))

\* TypedCursor::to_next_item
TypedCursor_to_next_item(c, cont, cur) == CursorToNextItem(c, cont, cur)

\* TypedCursor::get
TypedCursor_get(c, cont, cur) == CursorGet(c, cont, cur)

\* TypedCursor::replace
TypedCursor_replace(mode, c, cont, cur, v) == CursorReplace(mode, c, cont, cur, ToMdb(c, v))

\* TypedCursor::add_item
TypedCursor_add_item(mode, c, d, cont, cur, v) == CursorAddItem(mode, c, d, cont, cur, ToMdb(c, v))

\* TypedCursor::del
TypedCursor_del(mode, cont, cur) == CursorDelAll(mode, cont, cur)

\* TypedCursor::del_item
TypedCursor_del_item(mode, cont, cur) == CursorDelItem(mode, cont, cur)

\* TypedCursor::del_all
TypedCursor_del_all(mode, cont, cur) == CursorDelAll(mode, cont, cur)

\* a has_item that answers false on every error
has_item_swallow(c, d, cont, k, v, fault) ==
    IF fault = "new_cursor" THEN Res("Ok", <<FALSE>>, cont)
    ELSE LET r == IF fault = "to_item" THEN CRes("Other", <<>>, {}, cont)
                  ELSE TypedCursor_to_item(c, d, cont, Unpositioned, k, v)
         IN  Res("Ok", <<r.code = "Ok">>, cont)

\* Table::has_item: a fresh cursor, to_item; Ok -> true, NotFound -> false,
\* any other error is returned.  fault: "new_cursor" or "to_item" when the
\* store fails that call, "none" otherwise
has_item(c, d, cont, k, v, fault) ==
    IF fault = "new_cursor" THEN Res("Other", <<>>, cont)
    ELSE LET r == IF fault = "to_item" THEN CRes("Other", <<>>, {}, cont)
                  ELSE TypedCursor_to_item(c, d, cont, Unpositioned, k, v)
         IN  IF r.code = "Ok" THEN Res("Ok", <<TRUE>>, cont)
             ELSE IF r.code = "NotFound" THEN Res("Ok", <<FALSE>>, cont)
             ELSE Res(r.code, <<>>, cont)

\* an insert_item that writes without probing
insert_item_unchecked(mode, c, d, cont, k, v, fault) ==
    IF fault # "none" THEN Res("Other", <<>>, cont)
    ELSE Table_set(mode, c, d, cont, k, v)

\* Table::insert_item: try!(has_item); KeyExists if it is there; else set
insert_item(mode, c, d, cont, k, v, fault) ==
    LET h == has_item(c, d, cont, k, v, fault)
    IN  IF h.code # "Ok" THEN Res(h.code, <<>>, cont)
        ELSE IF h.out[1] THEN Res("KeyExists", <<>>, cont)
        ELSE Table_set(mode, c, d, cont, k, v)

---------------------------------------------------------------------------
(* State machine *)

Faults == {"none", "new_cursor", "to_item"}

TableOps == {"set", "insert", "insert_item", "has_item", "get", "del", "del_item", "new_cursor"}

CursorOps == {"to_key", "to_item", "to_gte_item", "to_next_item", "cursor_get",
              "replace", "add_item", "cursor_del", "cursor_del_item", "cursor_del_all"}

\* the calls that write: Table set/insert/insert_item/del/del_item and
\* TypedCursor replace/add_item/del/del_item/del_all
MutatingOps == {"set", "insert", "insert_item", "del", "del_item",
                "replace", "add_item", "cursor_del", "cursor_del_item", "cursor_del_all"}

NoHist == [k \in Keys |-> {}]

Frame == UNCHANGED <<endian, cls, a, b, ty, cmpRes>>

Call(op, k, v, code, out, fault) ==
    last' = [op |-> op, k |-> k, v |-> v, code |-> code, out |-> out, fault |-> fault]

Plain(op) == Call(op, 0, NoVal(cls), "Ok", <<>>, "none")

\* what a key holds after v is put under it: one more value where duplicates
\* are allowed, v alone otherwise
HistPut(h, k, v) == [h EXCEPT ![k] = IF AllowDups(cls) THEN @ \cup {v} ELSE {v}]

HistDelKey(h, k) == [h EXCEPT ![k] = {}]

HistDelItem(h, k, v) == [h EXCEPT ![k] = IF AllowDups(cls) THEN @ \ {v} ELSE {}]

StoreInit ==
    /\ contents = EmptyContents
    /\ dcmp = "default"
    /\ txn = "none"
    /\ prepared = FALSE
    /\ table = FALSE
    /\ cursor = NoCursor
    /\ last = [op |-> "create_table", k |-> 0, v |-> NoVal(cls), code |-> "Ok",
               out |-> <<>>, fault |-> "none"]
    /\ hist = NoHist

\* the environment is open and create_table has returned the TableHandle
Init ==
    /\ endian = "little"
    /\ cls \in TableClasses
    /\ StoreInit
    /\ a = <<0, 0>> /\ b = <<0, 0>> /\ ty = "Id64x2" /\ cmpRes = <<>>

\* Environment::new_transaction
BeginWrite ==
    /\ txn = "none"
    /\ txn' = "write" /\ prepared' = FALSE
    /\ Plain("new_transaction")
    /\ UNCHANGED <<contents, dcmp, table, cursor, hist>> /\ Frame

\* Environment::get_reader
BeginRead ==
    /\ txn = "none"
    /\ txn' = "read" /\ prepared' = FALSE
    /\ Plain("get_reader")
    /\ UNCHANGED <<contents, dcmp, table, cursor, hist>> /\ Frame

\* Transaction::commit takes the transaction by value: nothing may borrow it
Commit ==
    /\ txn = "write" /\ ~TxnBorrowed(table)
    /\ txn' = "none" /\ prepared' = FALSE
    /\ Plain("commit")
    /\ UNCHANGED <<contents, dcmp, table, cursor, hist>> /\ Frame

\* the ReadonlyTransaction goes out of scope
EndRead ==
    /\ txn = "read" /\ ~TxnBorrowed(table)
    /\ txn' = "none" /\ prepared' = FALSE
    /\ Plain("drop_reader")
    /\ UNCHANGED <<contents, dcmp, table, cursor, hist>> /\ Frame

BindTransaction ==
    /\ txn = "write" /\ ~table
    /\ \E fault \in BOOLEAN :
         LET r == bind_transaction(cls, dcmp, fault)
         IN  /\ table' = r.table /\ dcmp' = r.dcmp /\ prepared' = (prepared \/ r.prepared)
             /\ Call("bind_transaction", 0, NoVal(cls), r.code, <<>>,
                     IF fault /\ PrepareCanFail(cls) THEN "set_dupsort" ELSE "none")
    /\ UNCHANGED <<contents, txn, cursor, hist>> /\ Frame

BindReader ==
    /\ txn = "read" /\ ~table
    /\ \E fault \in BOOLEAN :
         LET r == bind_reader(cls, dcmp, fault)
         IN  /\ table' = r.table /\ dcmp' = r.dcmp /\ prepared' = (prepared \/ r.prepared)
             /\ Call("bind_reader", 0, NoVal(cls), r.code, <<>>,
                     IF fault /\ PrepareCanFail(cls) THEN "set_dupsort" ELSE "none")
    /\ UNCHANGED <<contents, txn, cursor, hist>> /\ Frame

\* the Table goes out of scope
DropTable ==
    /\ table /\ ~TableBorrowed(cursor)
    /\ table' = FALSE
    /\ Plain("drop_table")
    /\ UNCHANGED <<contents, dcmp, txn, prepared, cursor, hist>> /\ Frame

\* a write through the Table; h is what the keys hold if it succeeds
TableWrite(op, k, v, r, h, fault) ==
    /\ contents' = r.cont
    /\ cursor' \in (IF r.code = "Ok" THEN CursorAfterWrite(cls, r.cont, cursor) ELSE {cursor})
    /\ Call(op, k, v, r.code, r.out, fault)
    /\ hist' = IF r.code = "Ok" THEN h ELSE hist
    /\ UNCHANGED <<dcmp, txn, prepared, table>> /\ Frame

\* a read through the Table
TableRead(op, k, v, r, fault) ==
    /\ Call(op, k, v, r.code, r.out, fault)
    /\ UNCHANGED <<contents, dcmp, txn, prepared, table, cursor, hist>> /\ Frame

Set ==
    /\ table
    /\ \E p \in WritesOf(cls) :
         TableWrite("set", p[1], p[2], Table_set(txn, cls, dcmp, contents, p[1], p[2]),
                    HistPut(hist, p[1], p[2]), "none")

Insert ==
    /\ table
    /\ \E p \in WritesOf(cls) :
         TableWrite("insert", p[1], p[2], Table_insert(txn, cls, dcmp, contents, p[1], p[2]),
                    HistPut(hist, p[1], p[2]), "none")

InsertItem ==
    /\ table
    /\ \E p \in WritesOf(cls), fault \in Faults :
         TableWrite("insert_item", p[1], p[2],
                    insert_item(txn, cls, dcmp, contents, p[1], p[2], fault),
                    HistPut(hist, p[1], p[2]), fault)

HasItem ==
    /\ table
    /\ \E p \in ProbePairsOf(cls), fault \in Faults :
         TableRead("has_item", p[1], p[2], has_item(cls, dcmp, contents, p[1], p[2], fault), fault)

Get ==
    /\ table
    /\ \E k \in Keys : TableRead("get", k, NoVal(cls), Table_get(cls, contents, k), "none")

Del ==
    /\ table
    /\ \E k \in Keys : TableWrite("del", k, NoVal(cls), Table_del(txn, contents, k),
                                  HistDelKey(hist, k), "none")

DelItem ==
    /\ table
    /\ \E p \in WritesOf(cls) :
         TableWrite("del_item", p[1], p[2], Table_del_item(txn, cls, dcmp, contents, p[1], p[2]),
                    HistDelItem(hist, p[1], p[2]), "none")

\* Table::new_cursor; fault: the store cannot open a cursor
NewCursor ==
    /\ table /\ cursor = NoCursor
    /\ \E fault \in BOOLEAN :
         /\ cursor' = IF fault THEN NoCursor ELSE Unpositioned
         /\ Call("new_cursor", 0, NoVal(cls), IF fault THEN "Other" ELSE "Ok", <<>>,
                 IF fault THEN "new_cursor" ELSE "none")
    /\ UNCHANGED <<contents, dcmp, txn, prepared, table, hist>> /\ Frame

\* the TypedCursor goes out of scope
DropCursor ==
    /\ cursor # NoCursor
    /\ cursor' = NoCursor
    /\ Plain("drop_cursor")
    /\ UNCHANGED <<contents, dcmp, txn, prepared, table, hist>> /\ Frame

\* a positioning or a read through the cursor
CursorMove(op, k, v, r) ==
    /\ cursor' \in r.curs
    /\ Call(op, k, v, r.code, r.out, "none")
    /\ UNCHANGED <<contents, dcmp, txn, prepared, table, hist>> /\ Frame

\* a write through the cursor; h is what the keys hold if it succeeds
CursorWrite(op, v, r, h) ==
    /\ contents' = r.cont
    /\ cursor' \in r.curs
    /\ Call(op, 0, v, r.code, r.out, "none")
    /\ hist' = IF r.code = "Ok" THEN h ELSE hist
    /\ UNCHANGED <<dcmp, txn, prepared, table>> /\ Frame

ToKey ==
    /\ cursor # NoCursor
    /\ \E k \in Keys : CursorMove("to_key", k, NoVal(cls), TypedCursor_to_key(contents, k))

ToItem ==
    /\ cursor # NoCursor
    /\ \E p \in ProbePairsOf(cls) :
         CursorMove("to_item", p[1], p[2],
                    TypedCursor_to_item(cls, dcmp, contents, cursor, p[1], p[2]))

ToGteItem ==
    /\ cursor # NoCursor
    /\ \E p \in ProbePairsOf(cls) :
         CursorMove("to_gte_item", p[1], p[2],
                    TypedCursor_to_gte_item(cls, dcmp, contents, cursor, p[1], p[2]))

ToNextItem ==
    /\ cursor # NoCursor
    /\ CursorMove("to_next_item", 0, NoVal(cls), TypedCursor_to_next_item(cls, contents, cursor))

CGet ==
    /\ cursor # NoCursor
    /\ CursorMove("cursor_get", 0, NoVal(cls), TypedCursor_get(cls, contents, cursor))

\* the typed value under the cursor
Under(cur) == FromMdb(cls, cur.d)

\* Cursor::replace is called with a value that sorts where the replaced one did
\* (the store does not re-sort on MDB_CURRENT)
KeepsPlace(cur, x) ==
    cur.st = "at" /\ AllowDups(cls) =>
        LET seq == contents[cur.k]
            i == IndexOf(seq, cur.d)
        IN  /\ i > 1 => DupCmp(dcmp, seq[i - 1], x) < 0
            /\ i < Len(seq) => DupCmp(dcmp, x, seq[i + 1]) < 0

Replace ==
    /\ cursor # NoCursor
    /\ \E v \in ValuesOf(cls) :
         /\ cursor.st = "at" => <<cursor.k, v>> \in WritesOf(cls)
         /\ KeepsPlace(cursor, ToMdb(cls, v))
         /\ CursorWrite("replace", v, TypedCursor_replace(txn, cls, contents, cursor, v),
                        IF cursor.st = "at"
                        THEN HistPut(HistDelItem(hist, cursor.k, Under(cursor)), cursor.k, v)
                        ELSE hist)

AddItem ==
    /\ cursor # NoCursor
    /\ \E v \in ValuesOf(cls) :
         /\ cursor.st = "at" => <<cursor.k, v>> \in WritesOf(cls)
         /\ CursorWrite("add_item", v, TypedCursor_add_item(txn, cls, dcmp, contents, cursor, v),
                        IF cursor.st = "at" THEN HistPut(hist, cursor.k, v) ELSE hist)

CDel ==
    /\ cursor # NoCursor
    /\ CursorWrite("cursor_del", NoVal(cls), TypedCursor_del(txn, contents, cursor),
                   IF cursor.st = "at" THEN HistDelKey(hist, cursor.k) ELSE hist)

CDelItem ==
    /\ cursor # NoCursor
    /\ CursorWrite("cursor_del_item", NoVal(cls), TypedCursor_del_item(txn, contents, cursor),
                   IF cursor.st = "at" THEN HistDelItem(hist, cursor.k, Under(cursor)) ELSE hist)

CDelAll ==
    /\ cursor # NoCursor
    /\ CursorWrite("cursor_del_all", NoVal(cls), TypedCursor_del_all(txn, contents, cursor),
                   IF cursor.st = "at" THEN HistDelKey(hist, cursor.k) ELSE hist)

Next ==
    \/ BeginWrite \/ BeginRead \/ Commit \/ EndRead
    \/ BindTransaction \/ BindReader \/ DropTable
    \/ Set \/ Insert \/ InsertItem \/ HasItem \/ Get \/ Del \/ DelItem
    \/ NewCursor \/ DropCursor
    \/ ToKey \/ ToItem \/ ToGteItem \/ ToNextItem \/ CGet
    \/ Replace \/ AddItem \/ CDel \/ CDelItem \/ CDelAll

Spec == Init /\ [][Next]_vars

---------------------------------------------------------------------------
(* Codec check: two values of a composite type, compared both ways *)

Id64Samples == {0, 1, 2, 255, 256}

Idx16Samples == {0, 1, 255, 256}

CompositeTypes == {"Id64x2", "Idx16Id64"}

SamplesOf(t) == (IF t = "Id64x2" THEN Id64Samples ELSE Idx16Samples) \X Id64Samples

CodecInit ==
    /\ endian \in {"little", "big"}
    /\ ty \in CompositeTypes
    /\ a \in SamplesOf(ty) /\ b \in SamplesOf(ty)
    /\ cmpRes = <<>>
    /\ cls = "Unique__Id64x2_Id64"
    /\ StoreInit

\* the store compares the encodings of a and b as keys of Unique__Id64x2_Id64
\* (no MDB_INTEGERKEY, no comparator installed); the struct compares by Ord
Compare ==
    /\ cmpRes = <<>>
    /\ cmpRes' = <<MemCmp(CompositeToMdb(ty, a), CompositeToMdb(ty, b)),
                   DerivedOrd(a, b),
                   Len(CompositeToMdb(ty, a))>>
    /\ UNCHANGED <<endian, a, b, ty>> /\ UNCHANGED storeVars

CodecNext == Compare

SpecCodec == CodecInit /\ [][CodecNext]_vars

---------------------------------------------------------------------------
(* Properties *)

Range(s) == {s[i] : i \in 1..Len(s)}

Max(S) == CHOOSE x \in S : \A y \in S : y <= x

Min(S) == CHOOSE x \in S : \A y \in S : x <= y

RECURSIVE Walk(_, _, _, _)
\* the typed values to_next_item visits from cur until it fails (at most n)
Walk(c, cont, cur, n) ==
    LET r == TypedCursor_to_next_item(c, cont, cur)
    IN  IF n = 0 \/ r.code # "Ok" THEN <<>>
        ELSE LET nx == CHOOSE x \in r.curs : TRUE
             IN  <<FromMdb(c, nx.d)>> \o Walk(c, cont, nx, n - 1)

\* the typed values visited by to_key(k) followed by to_next_item until NotFound
Traverse(c, cont, k) ==
    LET r == TypedCursor_to_key(cont, k)
    IN  IF r.code # "Ok" THEN <<>>
        ELSE LET nx == CHOOSE x \in r.curs : TRUE
             IN  <<FromMdb(c, nx.d)>> \o Walk(c, cont, nx, Len(cont[k]))

StrictlyDescending(t) == \A i \in 1..(Len(t) - 1) : t[i] > t[i + 1]

\* the values test_simple_table leaves under key 1
TestValues == {200, 100, 3, 2, 1}

IsRev == cls = "Unique__Id64_Id64Rev"

IsBlob == cls = "UniqueKey__Id64_Blob"

\* C1: in the table with the descending comparator, to_key(k) followed by
\* to_next_item visits exactly the values written under k, each once, in
\* strictly descending order, and to_next_item fails with NotFound only past
\* the smallest; with {200,100,3,2,1} under key 1 the walk is 200,100,3,2,1.
C1_DescendingTraversal ==
    IsRev =>
        /\ \A k \in Keys :
             LET t == Traverse(cls, contents, k)
             IN  /\ StrictlyDescending(t)
                 /\ Range(t) = hist[k]
                 /\ (hist[k] = TestValues => t = <<200, 100, 3, 2, 1>>)
        /\ (last.op = "to_next_item" /\ last.code = "NotFound" /\ cursor.st = "at") =>
              Under(cursor) = Min(hist[cursor.k])

C1_Witness ==
    /\ IsRev /\ txn = "read"
    /\ hist[1] = TestValues
    /\ last.op = "to_next_item" /\ last.code = "NotFound"
    /\ cursor = At(1, Id64ToMdb(1))

\* the values of S that do not sort before v in the class's duplicate order
AtOrAfter(c, S, v) ==
    IF c = "Unique__Id64_Id64Rev" THEN {w \in S : w <= v} ELSE {w \in S : w >= v}

\* the value of S that sorts first in the class's duplicate order
FirstOf(c, S) == IF c = "Unique__Id64_Id64Rev" THEN Max(S) ELSE Min(S)

\* a positioning on a present key with a value the key does not hold
AbsentValueProbe(op) ==
    /\ AllowDups(cls) /\ last.op = op
    /\ hist[last.k] # {} /\ last.v \notin hist[last.k]

C3_Step ==
    (AllowDups(cls) /\ txn = "write") =>
        /\ (last'.op = "has_item" /\ last'.fault = "none") =>
              /\ last'.code = "Ok"
              /\ last'.out = <<last'.v \in hist[last'.k]>>
        /\ (last.op = "insert_item" /\ last.code = "Ok" /\ last'.fault = "none"
            /\ last'.op \in {"has_item", "insert_item"}
            /\ last'.k = last.k /\ last'.v = last.v) =>
              /\ last'.op = "has_item" => last'.out = <<TRUE>>
              /\ last'.op = "insert_item" => last'.code = "KeyExists"
        /\ (last'.op = "insert_item" /\ last'.code = "Ok") =>
              /\ last'.v \notin hist[last'.k]
              /\ last'.v \in hist'[last'.k]

\* C3: in a write transaction on a duplicate-enabled table, has_item(k, v)
\* returns whether the exact pair is stored (false while absent); the has_item
\* that follows a successful insert_item(k, v) returns true and the insert_item
\* that follows it fails with KeyExists; insert_item succeeds only on an absent
\* pair (calls the store itself fails are set aside).
C3_ExistenceCheck == [][C3_Step]_vars

C3_Witness ==
    /\ AllowDups(cls) /\ txn = "write"
    /\ last.op = "insert_item" /\ last.code = "KeyExists"
    /\ Cardinality(hist[last.k]) >= 2

\* C4: in the non-duplicate blob table a key holds at most one value, get
\* returns exactly the bytes of the most recent set of that key, and set in a
\* write transaction always succeeds.
C4_BlobUpsert ==
    IsBlob =>
        /\ \A k \in Keys :
             /\ Len(contents[k]) <= 1
             /\ IF hist[k] = {} THEN Table_get(cls, contents, k).code = "NotFound"
                ELSE /\ Table_get(cls, contents, k).code = "Ok"
                     /\ hist[k] = {Table_get(cls, contents, k).out[1]}
        /\ (last.op = "set" /\ txn = "write") =>
              /\ last.code = "Ok"
              /\ Table_get(cls, contents, last.k).out = <<last.v>>
        /\ (last.op = "get" /\ last.code = "Ok") => hist[last.k] = {last.out[1]}

C4_Witness ==
    /\ IsBlob /\ txn = "write"
    /\ last.op = "get" /\ last.k = 1 /\ last.code = "Ok"
    /\ last.out = << <<84, 101, 115, 116>> >>

BindOps == {"bind_transaction", "bind_reader"}

\* C5: a Table exists only after prepare_database succeeded in its transaction
\* (the class's comparator is installed); a bind whose prepare_database fails
\* returns the error and no Table; every Table and TypedCursor call runs after
\* a successful prepare.
C5_PrepareBeforeUse ==
    /\ table => prepared /\ (IsRev => dcmp = "reverse")
    /\ last.op \in BindOps =>
          /\ (last.code = "Ok") = table
          /\ last.fault # "none" => last.code = "Other" /\ ~table
    /\ last.op \in TableOps \cup CursorOps => prepared

C5_Witness ==
    /\ IsRev /\ last.op = "bind_reader" /\ last.fault = "set_dupsort"
    /\ last.code = "Other" /\ ~table /\ hist[1] # {}

\* the stored values of every key are in the strict order of comparator d
StoredInOrder(d, cont) ==
    \A k \in Keys : \A i \in 1..(Len(cont[k]) - 1) : DupCmp(d, cont[k][i], cont[k][i + 1]) < 0

C6_Step ==
    last'.op \in BindOps =>
        /\ contents' = contents
        /\ (IsRev /\ dcmp = "reverse") => dcmp' = "reverse"
        /\ (AllowDups(cls) /\ last'.code = "Ok") =>
              /\ StoredInOrder(dcmp', contents')
              /\ \A k \in Keys : \A v \in hist[k] :
                    TypedCursor_to_item(cls, dcmp', contents', Unpositioned, k, v).code = "Ok"

\* C6: a bind (and its prepare_database) changes no stored pair, leaves an
\* installed comparator as it is, and the stored duplicates are in the order of
\* the comparator in force after it, each still found by to_item.
C6_PrepareIdempotent == [][C6_Step]_vars

C6_Witness ==
    /\ IsRev /\ txn = "read" /\ table
    /\ last.op = "bind_reader" /\ last.code = "Ok"
    /\ Cardinality(hist[1]) >= 3

\* C7: a Table is alive only inside its transaction and a TypedCursor only
\* while its Table is; every Table or TypedCursor call runs in an open
\* transaction on a live Table.
C7_LifetimeContainment ==
    /\ table => txn # "none"
    /\ cursor # NoCursor => table
    /\ last.op \in TableOps \cup CursorOps => txn # "none" /\ table

C7_Witness ==
    /\ txn = "none" /\ last.op = "commit" /\ ~table /\ cursor = NoCursor
    /\ hist[1] # {}

\* C8: the encoding of Id64x2 and Idx16Id64 has no padding and byte-wise
\* comparison of two encodings agrees with the derived Ord of the structs.
C8_ByteOrderIsFieldOrder ==
    cmpRes # <<>> =>
        /\ cmpRes[3] = SizeOfComposite(ty)
        /\ cmpRes[1] = cmpRes[2]

C9_Step ==
    /\ last'.op = "has_item" =>
          /\ last'.fault # "none" => last'.code = "Other"
          /\ (last'.fault = "none" /\ AllowDups(cls)) =>
                last'.code = "Ok" /\ last'.out = <<last'.v \in hist[last'.k]>>
          /\ (last'.fault = "none" /\ ~AllowDups(cls)) => last'.code = "Incompatible"
    /\ last'.op = "insert_item" =>
          /\ last'.fault # "none" => last'.code = "Other" /\ contents' = contents
          /\ (last'.fault = "none" /\ ~AllowDups(cls)) =>
                last'.code = "Incompatible" /\ contents' = contents
          /\ (last'.fault = "none" /\ AllowDups(cls) /\ last'.v \in hist[last'.k]) =>
                last'.code = "KeyExists" /\ contents' = contents
          /\ (last'.fault = "none" /\ AllowDups(cls) /\ last'.v \notin hist[last'.k]) =>
                LET w == Table_set(txn, cls, dcmp, contents, last'.k, last'.v)
                IN  last'.code = w.code /\ contents' = w.cont
          /\ last'.code = "KeyExists" => last'.v \in hist[last'.k]
          /\ contents' # contents => last'.fault = "none" /\ last'.v \notin hist[last'.k]

\* C9: has_item turns NotFound into false and returns every other error
\* (cursor creation included); insert_item writes exactly when the probe found
\* the pair absent, returns KeyExists when it found it and the probe's error
\* when it failed, and in those two cases leaves the contents as they were.
C9_ProbeThenWrite == [][C9_Step]_vars

C9_Witness ==
    /\ AllowDups(cls) /\ txn = "write"
    /\ last.op = "insert_item" /\ last.fault = "to_item" /\ last.code = "Other"
    /\ last.v \notin hist[last.k] /\ hist[last.k] # {}

\* C10: through a Table bound by bind_reader every mutating call returns an
\* error, and nothing stored changes while the reader is open.
C10_ReaderNeverWrites ==
    /\ [](txn = "read" /\ last.op \in MutatingOps => last.code # "Ok")
    /\ [][txn = "read" => contents' = contents /\ hist' = hist]_vars

C10_Witness ==
    /\ txn = "read" /\ last.op = "replace" /\ last.code = "Access"
    /\ cursor.st = "at" /\ Cardinality(hist[1]) >= 2

=============================================================================
